---- MODULE Spec2Model ----
(***************************************************************************)
(* eES_Gen (src/eES_gen.py): the neutrino-electron elastic scattering      *)
(* event generator.  genEvent is modelled as a state machine: one action   *)
(* per stretch of code between two draws of the random number generator,   *)
(* one action per iteration of each rejection-sampling loop.               *)
(*                                                                         *)
(* Numbers.  The code computes in floating point; the model computes in    *)
(* exact rational arithmetic on integers.                                  *)
(*  - Energies are integers in units of me/8 (me is the electron mass, so  *)
(*    me = 8 units).  maxKE, eCos and diff_xscn are homogeneous in         *)
(*    (nuEnergy, T, me), so they keep their exact values in this unit.     *)
(*  - Couplings ga, gv are integers in units of 4e-5 (0.5 = 12500,         *)
(*    2*WMA = 0.46244 = 11561).                                            *)
(*  - Values too wide for a 32-bit integer are pairs <<hi, lo>> standing   *)
(*    for hi * WBase + lo with 0 <= lo < WBase.                            *)
(*  - The generator's draws are nondeterministic choices from a lattice    *)
(*    inside the interval the code passes to rng.uniform.                  *)
(***************************************************************************)
EXTENDS Integers, Sequences, FiniteSets, TLC

\* ------------------------------------------------------------ constants
\* line 129: me = 0.510998910 MeV; the model's energy unit is me/8.
me == 8
\* line 128: WMA = 0.23122, in units of 1e-5.
WMA == 23122
\* line 193: the cap nIter is compared with.
MaxIter == 1000
\* y is drawn at ymax * (1 - 1/2^k), k = 0 .. YBits.
YBits == 2

None == "None"

\* line 40
flavors == <<"nue", "nuebar", "numu", "numubar", "nutau", "nutaubar">>
FlavorSet == {flavors[i] : i \in 1..Len(flavors)}

\* ------------------------------------------------------- wide integers
WBase == 10 * 1000
WNorm(hi, lo) == <<hi + (lo \div WBase), lo % WBase>>
\* a * p + b * q + c * r for 32-bit a, b, c and small p, q, r
WLin3(a, p, b, q, c, r) ==
  WNorm((a \div WBase) * p + (b \div WBase) * q + (c \div WBase) * r,
        (a % WBase) * p + (b % WBase) * q + (c % WBase) * r)
WScale(c, w) == WNorm(w[1] * c, w[2] * c)
WLess(u, v) == u[1] < v[1] \/ (u[1] = v[1] /\ u[2] < v[2])
WLeq(u, v) == ~WLess(v, u)

RECURSIVE GCD(_, _)
GCD(a, b) == IF b = 0 THEN a ELSE GCD(b, a % b)
Abs(a) == IF a < 0 THEN -a ELSE a
Max(a, b) == IF a >= b THEN a ELSE b
Pow2(k) == 2 ^ k

\* ------------------------------------------------------------- tables
\* The rate tables read by __init__ (lines 41-45) are inputs: one shared
\* energy axis, strictly increasing, and per flavor the rates per bin and
\* the total rate.
TableSets ==
  { [bins   |-> <<4, 8, 9>>,
     rates  |-> [f \in FlavorSet |->
                   IF f \in {"nue", "nuebar"} THEN <<2, 4, 1>> ELSE <<1, 3, 2>>],
     totals |-> [f \in FlavorSet |-> IF f = "nue" THEN 5 ELSE 1]] }

VARIABLES
  nuEnergyBins,   \* self.nuEnergyBins
  eventRates,     \* self.eventRates
  totalRates,     \* self.totalRates
  pc,             \* where genEvent stands
  flavor,         \* selectNu's flavor / genEvent's genFlavor
  nuThreshold,    \* genEvent's argument
  eThreshold,     \* genEvent's argument
  nuEnergy,       \* the sampled neutrino energy
  sn_direction,   \* the normalised supernova direction
  rot,            \* the rotation carrying z onto sn_direction
  nIter,          \* rejectionSampling's counter
  eKE,            \* the sampled recoil energy
  eCos,           \* eCos squared, as a fraction, or NaN
  eDir,           \* the rotated recoil direction
  event,          \* the event returned, or None
  error,          \* the error raised, or None
  accepted,       \* history: the (x, y) pair the last sampler call accepted
  passedOver      \* history: a candidate satisfying the test was not returned

vars == <<nuEnergyBins, eventRates, totalRates, pc, flavor, nuThreshold,
          eThreshold, nuEnergy, sn_direction, rot, nIter, eKE, eCos, eDir,
          event, error, accepted, passedOver>>

tables == <<nuEnergyBins, eventRates, totalRates>>

\* ------------------------------------------------------ getEventRate
MinBin == nuEnergyBins[1]
MaxBin == nuEnergyBins[Len(nuEnergyBins)]

RECURSIVE WidthProduct(_, _)
WidthProduct(xp, i) ==
  IF i >= Len(xp) THEN 1 ELSE (xp[i + 1] - xp[i]) * WidthProduct(xp, i + 1)
\* Rates are carried multiplied by RateDen, so that interpolated values stay
\* integers.
RateDen == WidthProduct(nuEnergyBins, 1)

\* np.interp(x, xp, fp), times RateDen: the edge value outside the table,
\* the chord between the two neighbouring points inside.
Interp(x, xp, fp) ==
  IF x <= xp[1] THEN fp[1] * RateDen
  ELSE IF x >= xp[Len(xp)] THEN fp[Len(fp)] * RateDen
  ELSE LET i == CHOOSE j \in 1..(Len(xp) - 1) : xp[j] <= x /\ x < xp[j + 1]
           w == xp[i + 1] - xp[i]
       IN  (fp[i] * (xp[i + 1] - x) + fp[i + 1] * (x - xp[i])) * (RateDen \div w)

getEventRate(f, E) == Interp(E, nuEnergyBins, eventRates[f])

SeqMax(s) == CHOOSE m \in {s[i] : i \in 1..Len(s)} :
               \A i \in 1..Len(s) : s[i] <= m
\* line 92, times RateDen
maxEventRate(f) == SeqMax(eventRates[f]) * RateDen
\* variant of line 93 without the lowest bin
minEnergyIsThreshold(nt) == nt
\* line 93
minEnergy(nt) == Max(MinBin, nt)

\* ------------------------------------------------- the random generator
\* rng.uniform(low, high) with high = hn/hd (lines 188, 189).  numpy's
\* Generator.uniform requires high - low >= 0 and raises ValueError
\* otherwise; it returns low when high = low, and a value of [low, high)
\* when low < high.  The model draws the integers of that interval.
UniformRaises(low, hn, hd) == hn < low * hd
Uniform(low, hn, hd) ==
  IF hn = low * hd THEN {low}
  ELSE {x \in low..(hn \div hd) : x * hd < hn}

\* The y of line 189 is drawn at ymax * (1 - 1/2^k): 0, ymax/2, 3 ymax/4, ...
YDraws == 0..YBits

\* y < fx for y = ymax * (1 - 1/2^k), on wide integers.
Below(k, ymax, fx) == WLess(WScale(Pow2(k) - 1, ymax), WScale(Pow2(k), fx))

\* variant of line 190 with y <= func(x)
AcceptsAtEqual(k, ymax, fx) == ~WLess(WScale(Pow2(k), fx), WScale(Pow2(k) - 1, ymax))

\* line 190: the test that ends the loop.
Accepts(k, ymax, fx) == Below(k, ymax, fx)

\* variant of the test of line 193
ExceededAt1000(n) == n >= MaxIter

\* lines 192-193: after nIter += 1, the loop raises when nIter > 1000.
Exceeded(n) == n > MaxIter

\* ---------------------------------------------------- the cross-section
\* 0.5 in coupling units of 4e-5
HalfU == (5 * 10000) \div 4
\* 2*WMA in coupling units
TwoWMA == (2 * WMA) \div 4
\* lines 130-141
ga(f) ==
  IF f = "nue" THEN HalfU
  ELSE IF f = "nuebar" THEN -HalfU
  ELSE IF f = "numu" \/ f = "nutau" THEN -HalfU
  ELSE HalfU
gv(f) ==
  IF f = "nue" THEN TwoWMA + HalfU
  ELSE IF f = "nuebar" THEN TwoWMA + HalfU
  ELSE IF f = "numu" \/ f = "nutau" THEN TwoWMA - HalfU
  ELSE TwoWMA - HalfU

\* variant of line 147 with the sign of the last term changed
diff_xscnPlus(f, E, T) ==
  WLin3((gv(f) + ga(f)) * (gv(f) + ga(f)), E * E,
        (gv(f) - ga(f)) * (gv(f) - ga(f)), (E - T) * (E - T),
        gv(f) * gv(f) - ga(f) * ga(f), me * T)
\* lines 143-147, times E^2 and the square of the coupling unit: a wide
\* integer.
diff_xscn(f, E, T) ==
  WLin3((gv(f) + ga(f)) * (gv(f) + ga(f)), E * E,
        (gv(f) - ga(f)) * (gv(f) - ga(f)), (E - T) * (E - T),
        ga(f) * ga(f) - gv(f) * gv(f), me * T)
\* line 148
maxDiffXscn(f, E) == diff_xscn(f, E, 0)
\* line 150: maxKE = 2 E^2 / (me + 2 E), as a fraction
maxKE(E) == [n |-> 2 * E * E, d |-> me + 2 * E]

\* line 152: eCos = (E + me)/E * sqrt(T / (T + 2 me)).  The model keeps
\* eCos^2 as a reduced fraction; a negative T has no real square root (the
\* code's float power gives a complex number, which line 153 rejects).
eCosOf(E, T) ==
  IF T < 0 THEN [nan |-> TRUE, n |-> 0, d |-> 1]
  ELSE LET n == (E + me) * (E + me) * T
           d == E * E * (T + 2 * me)
           g == GCD(n, d)
       IN  [nan |-> FALSE, n |-> n \div g, d |-> d \div g]
\* line 153: eCos >= -1 and eCos <= 1 (eCos >= 0 when it is real)
eCosInRange(c) == ~c.nan /\ c.n <= c.d

\* ------------------------------------------------------------ geometry
\* Directions are integer vectors over a common denominator: [v, d] stands
\* for v/d.  The inputs are vectors whose length is an integer, so that the
\* normalised direction is rational.
Dot(a, b) == a[1] * b[1] + a[2] * b[2] + a[3] * b[3]
Cross(a, b) == <<a[2] * b[3] - a[3] * b[2],
                 a[3] * b[1] - a[1] * b[3],
                 a[1] * b[2] - a[2] * b[1]>>
ISqrt(n) == CHOOSE r \in 0..n : r * r = n
\* line 118: sn_direction / np.linalg.norm(sn_direction), in lowest terms
Normalize(v) ==
  LET n == ISqrt(Dot(v, v))
      g == GCD(GCD(GCD(Abs(v[1]), Abs(v[2])), Abs(v[3])), n)
  IN  [v |-> <<v[1] \div g, v[2] \div g, v[3] \div g>>, d |-> n \div g]

\* line 120
zaxis == <<0, 0, 1>>
NaNRot == [nan |-> TRUE, m |-> <<zaxis, zaxis, zaxis>>, d |-> 1]
\* lines 121-124.  c = cross(zaxis, sn) has length sin(rotAngle) and
\* dot(sn, zaxis) = cos(rotAngle), so the rotation by rotAngle about c/|c|
\* is (Rodrigues)  R = cos I + [c]x + c c^T (1 - cos)/|c|^2, which for
\* sn = (x, y, z)/d is the integer matrix below over d (d + z).  When
\* sn = +-z the cross product is the zero vector: line 122 divides 0 by 0,
\* numpy returns nan (a warning, no exception), and the rotation built from
\* it holds nan in every entry.
Rotation(sn) ==
  LET c == Cross(zaxis, sn.v)
      z == sn.v[3]
      d == sn.d
      crossMat == <<<<0, -c[3], c[2]>>, <<c[3], 0, -c[1]>>, <<-c[2], c[1], 0>>>>
  IN  IF Dot(c, c) = 0 THEN NaNRot
      ELSE [nan |-> FALSE,
            m |-> [i \in 1..3 |-> [j \in 1..3 |->
                     (IF i = j THEN z * (d + z) ELSE 0)
                     + (d + z) * crossMat[i][j] + c[i] * c[j]]],
            d |-> d * (d + z)]

\* The recoil direction is a vector of the two irrational numbers
\* s = sqrt(1 - eCos^2) and c = eCos: component i is (s[i]*s + c[i]*c)/d.
NaNVec == [nan |-> TRUE, s |-> zaxis, c |-> zaxis, d |-> 1]
\* lines 155-157, for ePhi with (cos ePhi, sin ePhi) = (phi[1], phi[2])/phi[3]
eDirLocal(phi) ==
  [nan |-> FALSE, s |-> <<phi[1], phi[2], 0>>, c |-> <<0, 0, phi[3]>>, d |-> phi[3]]
MatVec(m, v) == <<Dot(m[1], v), Dot(m[2], v), Dot(m[3], v)>>
\* line 158: rot.apply(eDir)
Apply(r, u) ==
  IF r.nan \/ u.nan THEN NaNVec
  ELSE [nan |-> FALSE, s |-> MatVec(r.m, u.s), c |-> MatVec(r.m, u.c), d |-> r.d * u.d]

\* line 159: np.isclose(np.dot(eDir, sn_direction), eCos), exactly:
\* (a s + b c)/k = c with s, c >= 0, s^2 = 1 - c^2, c^2 = cos2.n/cos2.d.
\* nan is close to nothing.
IsCloseDot(u, sn, cos2) ==
  IF u.nan \/ cos2.nan THEN FALSE
  ELSE LET a == Dot(u.s, sn.v)
           b == Dot(u.c, sn.v)
           k == u.d * sn.d
       IN  /\ a * a * (cos2.d - cos2.n) = (k - b) * (k - b) * cos2.n
           /\ a * (k - b) >= 0

\* --------------------------------------------------------------- inputs
FlavorArgs == {None} \cup FlavorSet \cup {"nuet"}
NuThresholds == {2, me, 5 * me}
EThresholds == {-1, 2, 5 * me}
SnArgs == {<<0, 0, 1>>, <<2, 4, 4>>}
\* line 117: rng.uniform(-1, 1, size=3), up to scale
RandomDirs == {<<1, 2, 2>>}
\* (cos, sin) of the ePhi of line 154, over a common denominator
PhiDraws == {<<1, 0, 1>>, <<0, 1, 1>>, <<3, 4, 5>>, <<-4, -3, 5>>}

NoDir == [v |-> <<0, 0, 0>>, d |-> 1]
NoEvent == [flavor |-> None, nuEnergy |-> 0, sn_direction |-> NoDir,
            eKE |-> 0, eDir |-> NaNVec]
NoAccept == [set |-> FALSE, x |-> 0, below |-> FALSE]
NoCos == [nan |-> TRUE, n |-> 0, d |-> 1]

Ended == {"done", "failed"}

Init ==
  /\ \E t \in TableSets :
       /\ nuEnergyBins = t.bins
       /\ eventRates = t.rates
       /\ totalRates = t.totals
  /\ pc = "idle"
  /\ flavor = None
  /\ nuThreshold = 0
  /\ eThreshold = 0
  /\ nuEnergy = 0
  /\ sn_direction = NoDir
  /\ rot = NaNRot
  /\ nIter = 0
  /\ eKE = 0
  /\ eCos = NoCos
  /\ eDir = NaNVec
  /\ event = NoEvent
  /\ error = None
  /\ accepted = NoAccept
  /\ passedOver = FALSE

\* variant in which an exception does not leave genEvent
RaiseAndGoOn(e) ==
  /\ pc' = "direction"
  /\ error' = e
  /\ event' = NoEvent
\* An exception leaves genEvent: no event is returned.
Raise(e) ==
  /\ pc' = "failed"
  /\ error' = e
  /\ event' = NoEvent

\* variant of line 90 without the assertion
FlavorUnchecked(f) == TRUE
\* line 90: assert flavor in self.flavors
FlavorKnown(f) == f \in FlavorSet

\* genEvent is called (line 115) and selectNu runs up to its call of
\* rejectionSampling (lines 86-93).
SelectNu(f, nt) ==
  /\ pc \in {"idle"} \cup Ended
  /\ nuThreshold' = nt
  /\ eThreshold' = 0
  /\ nuEnergy' = 0
  /\ sn_direction' = NoDir
  /\ rot' = NaNRot
  /\ nIter' = 0
  /\ eKE' = 0
  /\ eCos' = NoCos
  /\ eDir' = NaNVec
  /\ accepted' = NoAccept
  /\ passedOver' = FALSE
  /\ UNCHANGED tables
  /\ \E g \in IF f = None
              THEN {h \in FlavorSet : totalRates[h] > 0}   \* lines 86-89
              ELSE {f} :
       /\ flavor' = g
       /\ IF FlavorKnown(g)
          THEN /\ pc' = "rsNu"
               /\ error' = None
               /\ event' = NoEvent
          ELSE Raise("AssertionError@90")

\* One iteration of rejectionSampling (lines 187-194): x and y are drawn, the
\* test of line 190 either ends the loop with x or counts one more rejection.
\* The draws of one iteration with candidate x, where fx = func(x): each is
\* [x, accept, below], accept the outcome of line 190 and below the truth of
\* y < func(x).
Draws(x, ymax, fx) ==
  {[x |-> x, accept |-> Accepts(k, ymax, fx), below |-> Below(k, ymax, fx)] :
     k \in YDraws}

\* variant of line 151 sampling from 0
KEDomainFromZero == [xmin |-> 0, xmax |-> maxKE(nuEnergy)]
\* lines 93-95: the sampling domain of the neutrino energy
NuDomain == [xmin |-> minEnergy(nuThreshold), xmax |-> [n |-> MaxBin, d |-> 1]]
\* line 151: the sampling domain of the recoil energy
KEDomain == [xmin |-> eThreshold, xmax |-> maxKE(nuEnergy)]

\* rejectionSampling for the call of lines 94-96: func = getEventRate(flavor, .),
\* xmin = minEnergy, xmax = max(nuEnergyBins), ymax = maxEventRate.
RsNuStep ==
  /\ pc = "rsNu"
  /\ UNCHANGED <<tables, flavor, nuThreshold, eThreshold, sn_direction, rot,
                 eKE, eCos, eDir>>
  /\ IF UniformRaises(NuDomain.xmin, NuDomain.xmax.n, NuDomain.xmax.d)
     THEN /\ Raise("ValueError@188")
          /\ UNCHANGED <<nuEnergy, nIter, accepted, passedOver>>
     ELSE \E ymax \in {WNorm(0, maxEventRate(flavor))} :
          \E x \in Uniform(NuDomain.xmin, NuDomain.xmax.n, NuDomain.xmax.d) :
          \E fx \in {WNorm(0, getEventRate(flavor, x))} :
          \E dr \in Draws(x, ymax, fx) :
            IF dr.accept
            THEN /\ nuEnergy' = dr.x
                 /\ accepted' = [set |-> TRUE, x |-> dr.x, below |-> dr.below]
                 /\ pc' = "direction"
                 /\ nIter' = 0     \* the sampler's local is gone
                 /\ UNCHANGED <<passedOver, event, error>>
            ELSE /\ nIter' = nIter + 1
                 /\ passedOver' = (passedOver \/ dr.below)
                 /\ UNCHANGED <<nuEnergy, accepted>>
                 /\ IF Exceeded(nIter + 1)
                    THEN Raise("RuntimeError@194")
                    ELSE UNCHANGED <<pc, event, error>>

\* lines 116-124: the direction (given, or drawn at line 117), its
\* normalisation and the rotation; et is the eThreshold argument, first read
\* at line 151.
Direction(v, et) ==
  /\ pc = "direction"
  /\ sn_direction' = Normalize(v)
  /\ rot' = Rotation(Normalize(v))
  /\ eThreshold' = et
  /\ nIter' = 0
  /\ accepted' = NoAccept
  /\ passedOver' = FALSE
  /\ pc' = "rsE"
  /\ UNCHANGED <<tables, flavor, nuThreshold, nuEnergy, eKE, eCos, eDir, event, error>>

\* rejectionSampling for the call of line 151: func = diff_xscn,
\* xmin = eThreshold, xmax = maxKE, ymax = maxDiffXscn.
RsEStep ==
  /\ pc = "rsE"
  /\ UNCHANGED <<tables, flavor, nuThreshold, eThreshold, sn_direction, rot,
                 nuEnergy, eCos, eDir>>
  /\ IF UniformRaises(KEDomain.xmin, KEDomain.xmax.n, KEDomain.xmax.d)
     THEN /\ Raise("ValueError@188")
          /\ UNCHANGED <<eKE, nIter, accepted, passedOver>>
     ELSE \E ymax \in {maxDiffXscn(flavor, nuEnergy)} :
          \E x \in Uniform(KEDomain.xmin, KEDomain.xmax.n, KEDomain.xmax.d) :
          \E fx \in {diff_xscn(flavor, nuEnergy, x)} :
          \E dr \in Draws(x, ymax, fx) :
            IF dr.accept
            THEN /\ eKE' = dr.x
                 /\ accepted' = [set |-> TRUE, x |-> dr.x, below |-> dr.below]
                 /\ pc' = "angle"
                 /\ nIter' = 0     \* the sampler's local is gone
                 /\ UNCHANGED <<passedOver, event, error>>
            ELSE /\ nIter' = nIter + 1
                 /\ passedOver' = (passedOver \/ dr.below)
                 /\ UNCHANGED <<eKE, accepted>>
                 /\ IF Exceeded(nIter + 1)
                    THEN Raise("RuntimeError@194")
                    ELSE UNCHANGED <<pc, event, error>>

\* lines 152-153.  The failure of line 153 is an AssertionError when eCos is
\* a real number or nan, and a TypeError when it is complex.
Angle ==
  /\ pc = "angle"
  /\ eCos' = eCosOf(nuEnergy, eKE)
  /\ IF eCosInRange(eCosOf(nuEnergy, eKE))
     THEN /\ pc' = "rotate"
          /\ UNCHANGED <<event, error>>
     ELSE Raise("Error@153")
  /\ UNCHANGED <<tables, flavor, nuThreshold, eThreshold, nuEnergy, sn_direction,
                 rot, nIter, eKE, eDir, accepted, passedOver>>

\* variant of line 159 without the assertion
DotUnchecked(u, sn, cos2) == TRUE
\* line 159: the assertion on the rotated direction
DotChecked(u, sn, cos2) == IsCloseDot(u, sn, cos2)

\* lines 154-166
Rotate(phi) ==
  /\ pc = "rotate"
  /\ eDir' = Apply(rot, eDirLocal(phi))
  /\ IF DotChecked(Apply(rot, eDirLocal(phi)), sn_direction, eCos)
     THEN /\ pc' = "done"
          /\ error' = None
          /\ event' = [flavor |-> flavor, nuEnergy |-> nuEnergy,
                       sn_direction |-> sn_direction, eKE |-> eKE,
                       eDir |-> Apply(rot, eDirLocal(phi))]
     ELSE Raise("AssertionError@159")
  /\ UNCHANGED <<tables, flavor, nuThreshold, eThreshold, nuEnergy, sn_direction,
                 rot, nIter, eKE, eCos, accepted, passedOver>>

\* The steps of a call under way.
Step ==
  \/ RsNuStep
  \/ \E v \in SnArgs, et \in EThresholds : Direction(v, et)
  \/ \E v \in RandomDirs, et \in EThresholds : Direction(v, et)
  \/ RsEStep
  \/ Angle
  \/ \E phi \in PhiDraws : Rotate(phi)

Next ==
  \/ \E f \in FlavorArgs, nt \in NuThresholds : SelectNu(f, nt)
  \/ Step

Spec == Init /\ [][Next]_vars

\* A call under way runs on: the interpreter does not stop between two
\* statements.
FairSpec == Spec /\ WF_vars(Step)

\* =============================================================== claims
InLoop == pc \in {"rsNu", "rsE"}
ZDir == [v |-> zaxis, d |-> 1]

\* C1 as stated: rejectionSampling raises its convergence error after 1000
\* rejected draws: once 1000 candidates of a call have been rejected no
\* further candidate is drawn, and the error is never raised after fewer
\* than 1000 rejections.
C1_RaisesAfter1000 ==
  /\ InLoop => nIter < 1000
  /\ error = "RuntimeError@194" => nIter >= 1000

\* C1 amended: the error is raised after exactly MaxIter + 1 = 1001 rejected
\* draws: a sampler still drawing has rejected at most 1000 candidates (so the
\* 1001st rejection ends the call without a 1002nd draw), and the error is
\* raised only with 1001 rejections counted.
C1_RaisesAfter1001 ==
  /\ InLoop => nIter <= MaxIter
  /\ error = "RuntimeError@194" => pc = "failed" /\ nIter = MaxIter + 1

C1_Witness == pc = "failed" /\ error = "RuntimeError@194" /\ nIter = MaxIter + 1

\* C2: every event genEvent returns has eThreshold <= eKE <= maxKE(nuEnergy)
\* with maxKE(E) = 2 E^2 / (me + 2 E); a call whose maxKE(nuEnergy) is below
\* eThreshold returns no event.
C2_RecoilInDomain ==
  pc = "done" =>
    /\ eThreshold <= event.eKE
    /\ event.eKE * (me + 2 * event.nuEnergy) <= 2 * event.nuEnergy * event.nuEnergy

C2_Witness ==
  /\ pc = "done"
  /\ eThreshold > 0
  /\ event.eKE = eThreshold
  /\ event.eKE * (me + 2 * event.nuEnergy) < 2 * event.nuEnergy * event.nuEnergy

\* C3 as stated: a call with sn_direction exactly (0, 0, 1) does not fail from
\* the zero-length rotation axis: the rotation is the identity, not nan, and
\* the assertion of line 159 on the rotated direction does not fail.
C3_ZAxisHandled ==
  (sn_direction = ZDir /\ pc \in {"rsE", "angle", "rotate", "done", "failed"}) =>
    /\ ~rot.nan
    /\ error # "AssertionError@159"

\* C4: a call whose flavor is none of the six flavors fails with the
\* invalid-flavor error and returns no event, before anything is sampled.
C4_InvalidFlavorFails ==
  flavor \notin FlavorSet \cup {None} =>
    /\ pc = "failed"
    /\ error = "AssertionError@90"
    /\ event = NoEvent
    /\ nuEnergy = 0

C4_Witness == flavor = "nuet" /\ pc = "failed" /\ error = "AssertionError@90"

\* C5: the x rejectionSampling returns lies in [xmin, xmax], was accepted
\* against a y with y < func(x), and no earlier candidate of the call
\* satisfied the test.
C5_AcceptedDraw ==
  /\ pc = "direction" =>
       /\ accepted.set /\ accepted.below /\ ~passedOver
       /\ accepted.x = nuEnergy
       /\ Max(MinBin, nuThreshold) <= nuEnergy /\ nuEnergy <= MaxBin
  /\ pc = "angle" =>
       /\ accepted.set /\ accepted.below /\ ~passedOver
       /\ accepted.x = eKE
       /\ eThreshold <= eKE
       /\ eKE * (me + 2 * nuEnergy) <= 2 * nuEnergy * nuEnergy

C5_Witness == pc = "angle" /\ accepted.set /\ accepted.x = 3 /\ flavor = "nuebar"

\* C6: every event genEvent returns has
\* max(min(nuEnergyBins), nuThreshold) <= nuEnergy <= max(nuEnergyBins); a call
\* whose nuThreshold exceeds the largest bin returns no event.
C6_NuEnergyInDomain ==
  pc = "done" =>
    /\ Max(MinBin, nuThreshold) <= event.nuEnergy
    /\ event.nuEnergy <= MaxBin
    /\ nuThreshold <= MaxBin

C6_Witness ==
  pc = "done" /\ nuThreshold > MinBin /\ event.nuEnergy = nuThreshold

\* C7: every event returned has eCos in [-1, 1], eCos the value of line 152
\* for the event's nuEnergy and eKE, and dot(eDir, sn_direction) = eCos; a
\* call whose eCos is out of range, or whose rotated direction disagrees with
\* eCos, fails and returns no event.
C7_DirectionAtCosine ==
  /\ pc = "done" =>
       /\ eCos = eCosOf(event.nuEnergy, event.eKE)
       /\ eCosInRange(eCos)
       /\ IsCloseDot(event.eDir, event.sn_direction, eCos)
  /\ pc = "rotate" => eCosInRange(eCos)
  /\ (pc = "failed" /\ error = "Error@153") =>
       ~eCosInRange(eCos) /\ event = NoEvent
  /\ (pc = "failed" /\ error = "AssertionError@159") =>
       ~IsCloseDot(eDir, sn_direction, eCos) /\ event = NoEvent

C7_Witness ==
  /\ pc = "done"
  /\ event.sn_direction = [v |-> <<1, 2, 2>>, d |-> 3]
  /\ event.eKE = 3
  /\ event.eDir.s[1] # 0 /\ event.eDir.s[2] # 0

\* C9: every call terminates: a call under way ends, returned or failed; a
\* sampler never counts more than MaxIter + 1 rejections; and once a call has
\* raised an error it has ended without an event, and once it has ended
\* nothing of it runs again (no retry, and after a failure of the first loop
\* the second is never entered).
C9_Terminates ==
  /\ (pc \notin {"idle"} \cup Ended) ~> (pc \in Ended)
  /\ [](nIter <= MaxIter + 1)
  /\ [](pc \in Ended => ~ENABLED Step)
  /\ [](error # None => pc = "failed" /\ event = NoEvent)

C9_Witness == pc = "failed" /\ error = "RuntimeError@194" /\ nuEnergy # 0

\* The neutrino energies examined: up to 3 me in steps of me/8
EnergyGrid == 1..(3 * me)
\* The integers T with 0 <= T <= maxKE(E)
RecoilGrid(E) == 0..(maxKE(E).n \div maxKE(E).d)
\* diff_xscn decreases on the grid
Decreasing(f, E) ==
  \A T1, T2 \in RecoilGrid(E) :
    T1 <= T2 => WLeq(diff_xscn(f, E, T2), diff_xscn(f, E, T1))
\* diff_xscn(0) bounds diff_xscn on the grid
Dominated(f, E) ==
  \A T \in RecoilGrid(E) : WLeq(diff_xscn(f, E, T), maxDiffXscn(f, E))
\* the interpolated rate is bounded by the largest bin rate on the domain
RateDominated(f) ==
  \A E \in NuDomain.xmin..MaxBin : getEventRate(f, E) <= maxEventRate(f)

====
